---- MODULE Spec2Model ----
(***************************************************************************)
(* Model of the wahire-api user routes (src/app/routes/user_routes.py):    *)
(* the in-memory OTP store, the User collection, and the request handlers  *)
(* register_user, verify_otp, resend_otp, get_all_users, get_user_by_id,   *)
(* update_user and delete_user.                                            *)
(*                                                                         *)
(* Every handler is an asyncio coroutine.  The code between two awaits of  *)
(* a database call runs without interruption on the event loop, so each    *)
(* handler is a sequence of steps, one per database round trip, and the    *)
(* position of each request in flight is part of the state.               *)
(* send_whatsapp_message holds no await (the Twilio client is called       *)
(* synchronously), so it never yields: it is part of the step calling it.  *)
(*                                                                         *)
(* Spec     serves one request at a time (the contract of each handler).   *)
(* ConcSpec lets up to MaxInFlight requests interleave at their awaits.    *)
(***************************************************************************)
EXTENDS Integers, Sequences, FiniteSets, TLC

\* ------------------------------------------------------------- bounds
MaxInFlight == 2      \* request slots of the event loop
MaxUsers == 2         \* documents the collection may hold
MaxTicks == 2         \* clock advances
MaxSalt == 2          \* salts bcrypt may draw

\* ------------------------------------------------- program constants
OtpTtl == 300         \* generate_otp: time.time() + 300
MaskKeep == 4         \* mask_phone: phone[-4:]
PhoneMinLen == 10     \* User.phone min_length
PhoneMaxLen == 15     \* User.phone max_length
NameMinLen == 2       \* User.name min_length

\* The clock advances in steps of the lifetime of an OTP, so that
\* now < expires_at, now = expires_at and now > expires_at all occur.
TickStep == OtpTtl

\* ------------------------------------------------------------- inputs
PhoneA == <<"9","8","7","6","5","4","3","2","1","0">>
PhoneB == <<"9","1","2","3","4","5","3","2","1","0">>   \* last four digits of PhoneA
PhoneC == <<"9","8","7","6","5","4","3","2","1","1">>
PhoneShort == <<"3","2","1">>                           \* rejected by User.phone
Phones == {PhoneA, PhoneB, PhoneC, PhoneShort}
ValidPhones == {p \in Phones : Len(p) >= PhoneMinLen /\ Len(p) <= PhoneMaxLen}
Names == {"Asha", "Ravi"}
Codes == {"000000", "424242"}      \* values random.randint may draw six times
Salts == 1..MaxSalt
\* The inputs of one behaviour: the phones and names its requests carry and
\* the salts bcrypt draws.  One phone (and a phone too short for a User
\* document) under both names and every salt; two phones that share their
\* mask; two phones with different masks.
Universes ==
  { [phones |-> {PhoneA, PhoneShort}, names |-> Names, salts |-> Salts],
    [phones |-> {PhoneA, PhoneB}, names |-> {"Asha"}, salts |-> {1}],
    [phones |-> {PhoneA, PhoneC}, names |-> {"Asha"}, salts |-> {1}] }
Slots == 1..MaxInFlight

NoCode == ""
NoUser == [id |-> 0, name |-> "", phone |-> <<>>, role |-> "",
           isPhoneVerified |-> FALSE, isUserDeleted |-> FALSE]

VARIABLES
  users,       \* the User collection, in insertion order
  otp_store,   \* the module-level dict: phone -> {otp, expires_at}
  now,         \* time.time(), in seconds
  reqs,        \* the requests in flight: slot -> handler frame
  env,         \* the inputs of this behaviour: phones, names and salts
  registered,  \* history: the phones whose register_user wrote a document
  uses,        \* history: which verify_otp requests checked which stored entry
  pre          \* history: the state when the request being served arrived

vars == <<users, otp_store, now, reqs, env, registered, uses, pre>>

\* ------------------------------------------------------ pure functions

\* mask_phone: '*' * (len(phone) - 4) + phone[-4:]
mask_phone(phone) ==
  [i \in 1..Len(phone) |-> IF i <= Len(phone) - MaskKeep THEN "*" ELSE phone[i]]

\* passlib bcrypt: a salted one-way hash; the digest is a symbolic term over
\* the salt and the secret, verify recomputes it with the stored salt.
bcrypt_hash(secret, salt) == [salt |-> salt, digest |-> <<salt, secret>>]
bcrypt_verify(secret, hash) == hash.digest = <<hash.salt, secret>>

\* User.find_one(User.phone == masked): the first matching document, or None
Matches(db, masked) == {i \in 1..Len(db) : db[i].phone = masked}
find_one(db, masked) ==
  IF Matches(db, masked) = {} THEN NoUser
  ELSE db[CHOOSE i \in Matches(db, masked) : \A j \in Matches(db, masked) : i <= j]

\* User.get(id)
get(db, id) ==
  IF \E i \in 1..Len(db) : db[i].id = id
  THEN db[CHOOSE i \in 1..Len(db) : db[i].id = id]
  ELSE NoUser

\* Mutant of save: the document is removed from the collection.
save_remove(db, doc) == SelectSeq(db, LAMBDA u : u.id # doc.id)

\* Document.save(): writes every field of the local document under its id
save(db, doc) == [i \in 1..Len(db) |-> IF db[i].id = doc.id THEN doc ELSE db[i]]

\* Mutant of insert: the document is not written.
insert_skip(db, doc) == db

\* Document.insert()
insert(db, doc) == Append(db, doc)

\* User(...) in register_user; pydantic validates name and phone
NewUser(id, name, masked) ==
  [id |-> id, name |-> name, phone |-> masked, role |-> "user",
   isPhoneVerified |-> FALSE, isUserDeleted |-> FALSE]
ValidUser(name, masked) ==
  /\ Len(name) >= NameMinLen
  /\ Len(masked) >= PhoneMinLen
  /\ Len(masked) <= PhoneMaxLen

\* Mutant of pop: the key is kept.
pop_keep(store, phone) == store

\* dict assignment and dict.pop(key, None)
put(store, phone, entry) ==
  [p \in DOMAIN store \cup {phone} |-> IF p = phone THEN entry ELSE store[p]]
pop(store, phone) == [p \in DOMAIN store \ {phone} |-> store[p]]

\* Mutant of generate_otp: the entry is not stored.
generate_otp_skip(store, phone, otp, salt, t) == store

\* generate_otp: the store after otp_store[phone] = {hash, time.time() + 300}
generate_otp(store, phone, otp, salt, t) ==
  put(store, phone, [otp |-> bcrypt_hash(otp, salt), expires_at |-> t + OtpTtl])

\* get_all_users: User.find(User.isPhoneVerified == True).to_list()
find_verified(db) == SelectSeq(db, LAMBDA u : u.isPhoneVerified = TRUE)

\* ---------------------------------------------------------- responses
NoBody == <<>>
Resp(status, detail) == [status |-> status, detail |-> detail]
Pending == Resp(0, "")
AlreadyExists == Resp(400, "User with this phone number already exists.")
OtpExpiredOrInvalid == Resp(400, "OTP expired or invalid")
IncorrectOtp == Resp(400, "Incorrect OTP")
UserNotFound == Resp(404, "User not found")
AlreadyVerified == Resp(400, "User is already verified")
SendFailed == Resp(500, "Failed to send message")
ValidationError == Resp(500, "Internal Server Error")
Registered == Resp(200, "User registered successfully. OTP sent")
Verified == Resp(200, "OTP verified successfully")
Resent == Resp(200, "New OTP sent successfully")
Updated == Resp(200, "User updated successfully")
Deleted == Resp(200, "User deleted successfully")
Ok == Resp(200, "")

\* send_whatsapp_message: the message sid, or HTTPException(500)
send_whatsapp_message(delivered, success) == IF delivered THEN success ELSE SendFailed

\* ------------------------------------------------------------- frames
Idle == [op |-> "none", pc |-> "idle", phone |-> <<>>, name |-> "", otp |-> NoCode,
         uid |-> 0, user |-> NoUser, result |-> Pending, body |-> NoBody]
Frame(op, pc, phone, name, otp, uid) ==
  [Idle EXCEPT !.op = op, !.pc = pc, !.phone = phone, !.name = name,
               !.otp = otp, !.uid = uid]
Free(r) == reqs[r].pc \in {"idle", "done"}
InFlight(r) == ~Free(r)
At(r, op, pc) == reqs[r].op = op /\ reqs[r].pc = pc
Goto(r, pc) == reqs' = [reqs EXCEPT ![r].pc = pc]
Done(r, result) == reqs' = [reqs EXCEPT ![r].pc = "done", ![r].result = result]
Snapshot == [users |-> users, otp_store |-> otp_store, now |-> now,
             registered |-> registered]

\* ------------------------------------------------- history of the store
\* uses.current: the slots whose verify_otp passed its check against the
\*               entry the store holds now (no entry was stored over it);
\* uses.cohort:  per slot, the slots whose verify_otp checked the same entry;
\* uses.spent:   the slots in flight whose checked entry another verify_otp
\*               has already completed on.
NoUses == [current |-> {}, cohort |-> [r \in Slots |-> {}], spent |-> {}]
\* a request arrives in slot r: what the last request there checked is forgotten
Forget(u, r) ==
  [current |-> u.current \ {r},
   cohort |-> [s \in Slots |-> IF s = r THEN {} ELSE u.cohort[s] \ {r}],
   spent |-> u.spent \ {r}]
\* a new entry is stored for phone: no request has checked it yet
Stored(u, phone) ==
  [u EXCEPT !.current = {s \in u.current : reqs[s].phone # phone}]
\* verify_otp in slot r passed its check against the entry stored for phone
Checked(u, r, phone) ==
  LET c == {r} \cup {s \in u.current : reqs[s].phone = phone}
  IN  [u EXCEPT !.current = u.current \cup {r},
                !.cohort = [s \in Slots |-> IF s \in c THEN c ELSE u.cohort[s]]]
\* verify_otp in slot r completed on the entry it checked
Used(u, r) ==
  [u EXCEPT !.spent = u.spent \cup {s \in u.cohort[r] \ {r} : InFlight(s)}]

Init ==
  /\ env \in Universes
  /\ users = <<>>
  /\ otp_store = <<>>
  /\ now = 0
  /\ reqs = [r \in Slots |-> Idle]
  /\ registered = {}
  /\ uses = NoUses
  /\ pre = Snapshot

\* ------------------------------------------------------------ arrivals
\* A request arrives in slot r; its handler has not run yet.
Arrive(r, frame) ==
  /\ Free(r)
  /\ reqs' = [reqs EXCEPT ![r] = frame]
  /\ uses' = Forget(uses, r)
  /\ UNCHANGED <<users, otp_store, now, env, registered>>

Request(r) ==
  \/ \E n \in env.names, p \in env.phones : Arrive(r, Frame("register_user", "find", p, n, NoCode, 0))
  \/ \E p \in env.phones, c \in Codes : Arrive(r, Frame("verify_otp", "check", p, "", c, 0))
  \/ \E p \in env.phones : Arrive(r, Frame("resend_otp", "find", p, "", NoCode, 0))
  \/ Arrive(r, Frame("get_all_users", "find", <<>>, "", NoCode, 0))
  \/ \E id \in 1..MaxUsers : Arrive(r, Frame("get_user_by_id", "find", <<>>, "", NoCode, id))
  \/ \E n \in env.names, p \in env.phones : Arrive(r, Frame("update_user", "find", p, n, NoCode, 0))
  \/ \E p \in env.phones : Arrive(r, Frame("delete_user", "find", p, "", NoCode, 0))
  \/ \E p \in env.phones : Arrive(r, Frame("delete_user_first", "run", p, "", NoCode, 0))

\* ------------------------------------------------------- register_user
\* Mutant of Conflict: the test of the deletion flag inverted.
Conflict_inverted(existing_user) == existing_user # NoUser /\ existing_user.isUserDeleted

\* if existing_user and not existing_user.isUserDeleted
Conflict(existing_user) == existing_user # NoUser /\ ~existing_user.isUserDeleted

\* if existing_user and existing_user.isUserDeleted
Reactivable(existing_user) == existing_user # NoUser /\ existing_user.isUserDeleted

\* Mutant of Reactivated: the reactivation also resets isPhoneVerified.
Reactivated_reset(existing_user, name) ==
  [existing_user EXCEPT !.isUserDeleted = FALSE, !.name = name,
                        !.isPhoneVerified = FALSE]

\* existing_user.isUserDeleted = False; existing_user.name = user_data.name
Reactivated(existing_user, name) ==
  [existing_user EXCEPT !.isUserDeleted = FALSE, !.name = name]

\* existing_user = await User.find_one(User.phone == mask_phone(phone))
register_user_find(r) ==
  /\ At(r, "register_user", "find")
  /\ reqs' = [reqs EXCEPT ![r].user = find_one(users, mask_phone(reqs[r].phone)),
                          ![r].pc = "write"]
  /\ UNCHANGED <<users, otp_store, now, env, registered, uses, pre>>

\* the 400, or the reactivation and its save(), or User(...) and its insert()
register_user_write(r) ==
  /\ At(r, "register_user", "write")
  /\ LET f == reqs[r]
         existing_user == f.user
     IN  IF Conflict(existing_user)
         THEN /\ Done(r, AlreadyExists)
              /\ UNCHANGED <<users, registered>>
         ELSE IF Reactivable(existing_user)
         THEN /\ users' = save(users, Reactivated(existing_user, f.name))
              /\ registered' = registered \cup {f.phone}
              /\ Goto(r, "otp")
         ELSE IF ~ValidUser(f.name, mask_phone(f.phone))
         THEN /\ Done(r, ValidationError)
              /\ UNCHANGED <<users, registered>>
         ELSE /\ Len(users) < MaxUsers
              /\ users' = insert(users, NewUser(Len(users) + 1, f.name, mask_phone(f.phone)))
              /\ registered' = registered \cup {f.phone}
              /\ Goto(r, "otp")
  /\ UNCHANGED <<otp_store, now, env, uses, pre>>

\* otp = generate_otp(phone); await send_whatsapp_message(...); return
register_user_otp(r) ==
  /\ At(r, "register_user", "otp")
  /\ \E otp \in Codes, salt \in env.salts, delivered \in BOOLEAN :
       /\ otp_store' = generate_otp(otp_store, reqs[r].phone, otp, salt, now)
       /\ reqs' = [reqs EXCEPT ![r].otp = otp, ![r].pc = "done",
                               ![r].result = send_whatsapp_message(delivered, Registered)]
  /\ uses' = Stored(uses, reqs[r].phone)
  /\ UNCHANGED <<users, now, env, registered, pre>>

register_user(r) ==
  \/ register_user_find(r)
  \/ register_user_write(r)
  \/ register_user_otp(r)

\* ---------------------------------------------------------- verify_otp
\* The ledger check of verify_otp, as the code orders it: a missing or
\* expired entry first, the hash second.
\* Mutant of LedgerCheck: the entry is taken as expired at now = expires_at.
LedgerCheck_strict(store, phone, otp, t) ==
  IF phone \notin DOMAIN store \/ t >= store[phone].expires_at THEN OtpExpiredOrInvalid
  ELSE IF ~bcrypt_verify(otp, store[phone].otp) THEN IncorrectOtp
  ELSE Ok

\* Mutant of LedgerCheck: the hash is tested before the expiry.
LedgerCheck_hash_first(store, phone, otp, t) ==
  IF phone \notin DOMAIN store THEN OtpExpiredOrInvalid
  ELSE IF ~bcrypt_verify(otp, store[phone].otp) THEN IncorrectOtp
  ELSE IF t > store[phone].expires_at THEN OtpExpiredOrInvalid
  ELSE Ok

\* Mutant of LedgerCheck: the expiry of the entry is not tested.
LedgerCheck_no_expiry(store, phone, otp, t) ==
  IF phone \notin DOMAIN store THEN OtpExpiredOrInvalid
  ELSE IF ~bcrypt_verify(otp, store[phone].otp) THEN IncorrectOtp
  ELSE Ok

LedgerCheck(store, phone, otp, t) ==
  IF phone \notin DOMAIN store \/ t > store[phone].expires_at THEN OtpExpiredOrInvalid
  ELSE IF ~bcrypt_verify(otp, store[phone].otp) THEN IncorrectOtp
  ELSE Ok

\* Mutant of LedgerAfterCheck: every failed check pops the entry.
LedgerAfterCheck_pop_any(store, phone, outcome) ==
  IF outcome # Ok THEN pop(store, phone) ELSE store

\* The store a failed or passed check leaves: only the first test pops.
LedgerAfterCheck(store, phone, outcome) ==
  IF outcome = OtpExpiredOrInvalid THEN pop(store, phone) ELSE store

\* otp_entry = otp_store.get(phone); the expiry test and its pop; the hash test
verify_otp_check(r) ==
  /\ At(r, "verify_otp", "check")
  /\ LET f == reqs[r]
         outcome == LedgerCheck(otp_store, f.phone, f.otp, now)
     IN  /\ otp_store' = LedgerAfterCheck(otp_store, f.phone, outcome)
         /\ IF outcome = Ok THEN Goto(r, "find") ELSE Done(r, outcome)
         /\ uses' = IF outcome = Ok THEN Checked(uses, r, f.phone) ELSE uses
  /\ UNCHANGED <<users, now, env, registered, pre>>

\* user = await User.find_one(User.phone == masked_phone)
verify_otp_find(r) ==
  /\ At(r, "verify_otp", "find")
  /\ reqs' = [reqs EXCEPT ![r].user = find_one(users, mask_phone(reqs[r].phone)),
                          ![r].pc = "save"]
  /\ UNCHANGED <<users, otp_store, now, env, registered, uses, pre>>

\* the 404, or user.isPhoneVerified = True; await user.save()
verify_otp_save(r) ==
  /\ At(r, "verify_otp", "save")
  /\ LET user == reqs[r].user
     IN  IF user = NoUser
         THEN /\ Done(r, UserNotFound)
              /\ UNCHANGED users
         ELSE /\ users' = save(users, [user EXCEPT !.isPhoneVerified = TRUE])
              /\ reqs' = [reqs EXCEPT ![r].user.isPhoneVerified = TRUE,
                                      ![r].pc = "welcome"]
  /\ UNCHANGED <<otp_store, now, env, registered, uses, pre>>

\* otp_store.pop(phone, None); await send_whatsapp_message(...); return
verify_otp_welcome(r) ==
  /\ At(r, "verify_otp", "welcome")
  /\ otp_store' = pop(otp_store, reqs[r].phone)
  /\ \E delivered \in BOOLEAN : Done(r, send_whatsapp_message(delivered, Verified))
  /\ uses' = Used(uses, r)
  /\ UNCHANGED <<users, now, env, registered, pre>>

verify_otp(r) ==
  \/ verify_otp_check(r)
  \/ verify_otp_find(r)
  \/ verify_otp_save(r)
  \/ verify_otp_welcome(r)

\* ---------------------------------------------------------- resend_otp
\* user = await User.find_one(User.phone == masked_phone)
resend_otp_find(r) ==
  /\ At(r, "resend_otp", "find")
  /\ reqs' = [reqs EXCEPT ![r].user = find_one(users, mask_phone(reqs[r].phone)),
                          ![r].pc = "otp"]
  /\ UNCHANGED <<users, otp_store, now, env, registered, uses, pre>>

\* Mutant of resend_store: an entry already stored is kept.
resend_store_keep(store, phone, otp, salt1, salt2, t) ==
  IF phone \in DOMAIN store THEN store
  ELSE put(store, phone, [otp |-> bcrypt_hash(otp, salt2), expires_at |-> t + OtpTtl])

\* The entry resend_otp leaves: generate_otp stores one hash of the code, and
\* the handler then stores a second hash of the same code over it.
resend_store(store, phone, otp, salt1, salt2, t) ==
  put(generate_otp(store, phone, otp, salt1, t), phone,
      [otp |-> bcrypt_hash(otp, salt2), expires_at |-> t + OtpTtl])

\* the 404, the 400, or generate_otp, the second store, the send and the return
resend_otp_otp(r) ==
  /\ At(r, "resend_otp", "otp")
  /\ LET f == reqs[r]
     IN  IF f.user = NoUser
         THEN /\ Done(r, UserNotFound)
              /\ UNCHANGED <<otp_store, uses>>
         ELSE IF f.user.isPhoneVerified
         THEN /\ Done(r, AlreadyVerified)
              /\ UNCHANGED <<otp_store, uses>>
         ELSE \E otp \in Codes, salt1 \in env.salts, salt2 \in env.salts, delivered \in BOOLEAN :
                /\ otp_store' = resend_store(otp_store, f.phone, otp, salt1, salt2, now)
                /\ uses' = Stored(uses, f.phone)
                /\ reqs' = [reqs EXCEPT ![r].otp = otp, ![r].pc = "done",
                              ![r].result = send_whatsapp_message(delivered, Resent)]
  /\ UNCHANGED <<users, now, env, registered, pre>>

resend_otp(r) ==
  \/ resend_otp_find(r)
  \/ resend_otp_otp(r)

\* ------------------------------------------------------- the directory
\* users = await User.find(User.isPhoneVerified == True).to_list(); return users
get_all_users(r) ==
  /\ At(r, "get_all_users", "find")
  /\ reqs' = [reqs EXCEPT ![r].body = find_verified(users), ![r].pc = "done",
                          ![r].result = Ok]
  /\ UNCHANGED <<users, otp_store, now, env, registered, uses, pre>>

\* user = await User.get(user_id); the 404 or the document
get_user_by_id(r) ==
  /\ At(r, "get_user_by_id", "find")
  /\ LET user == get(users, reqs[r].uid)
     IN  IF user = NoUser
         THEN Done(r, UserNotFound)
         ELSE reqs' = [reqs EXCEPT ![r].user = user, ![r].body = <<user>>,
                                   ![r].pc = "done", ![r].result = Ok]
  /\ UNCHANGED <<users, otp_store, now, env, registered, uses, pre>>

\* user = await User.find_one(User.phone == masked_phone)
update_user_find(r) ==
  /\ At(r, "update_user", "find")
  /\ reqs' = [reqs EXCEPT ![r].user = find_one(users, mask_phone(reqs[r].phone)),
                          ![r].pc = "save"]
  /\ UNCHANGED <<users, otp_store, now, env, registered, uses, pre>>

\* the 404, or user.name = name; await user.save(); return
update_user_save(r) ==
  /\ At(r, "update_user", "save")
  /\ LET f == reqs[r]
     IN  IF f.user = NoUser
         THEN /\ Done(r, UserNotFound)
              /\ UNCHANGED users
         ELSE /\ users' = save(users, [f.user EXCEPT !.name = f.name])
              /\ Done(r, Updated)
  /\ UNCHANGED <<otp_store, now, env, registered, uses, pre>>

update_user(r) ==
  \/ update_user_find(r)
  \/ update_user_save(r)

\* The first function registered for DELETE /{phone}: its body is its
\* docstring.  The router serves every DELETE /{phone} request with the
\* first matching route, which is this one: it returns None.
delete_user_first(r) ==
  /\ At(r, "delete_user_first", "run")
  /\ Done(r, Ok)
  /\ UNCHANGED <<users, otp_store, now, env, registered, uses, pre>>

\* The second function of that name, which the module binds delete_user to.
\* user = await User.find_one(User.phone == masked_phone)
delete_user_find(r) ==
  /\ At(r, "delete_user", "find")
  /\ reqs' = [reqs EXCEPT ![r].user = find_one(users, mask_phone(reqs[r].phone)),
                          ![r].pc = "save"]
  /\ UNCHANGED <<users, otp_store, now, env, registered, uses, pre>>

\* the 404, or user.isUserDeleted = True; await user.save(); return
delete_user_save(r) ==
  /\ At(r, "delete_user", "save")
  /\ LET f == reqs[r]
     IN  IF f.user = NoUser
         THEN /\ Done(r, UserNotFound)
              /\ UNCHANGED users
         ELSE /\ users' = save(users, [f.user EXCEPT !.isUserDeleted = TRUE])
              /\ Done(r, Deleted)
  /\ UNCHANGED <<otp_store, now, env, registered, uses, pre>>

delete_user(r) ==
  \/ delete_user_find(r)
  \/ delete_user_save(r)

\* --------------------------------------------------------------- clock
Tick ==
  /\ now + TickStep <= MaxTicks * TickStep
  /\ now' = now + TickStep
  /\ UNCHANGED <<users, otp_store, reqs, env, registered, uses, pre>>

Step(r) ==
  \/ register_user(r)
  \/ verify_otp(r)
  \/ resend_otp(r)
  \/ get_all_users(r)
  \/ get_user_by_id(r)
  \/ update_user(r)
  \/ delete_user_first(r)
  \/ delete_user(r)

\* One request at a time: a request arrives when none is in flight, and the
\* clock is read once per request.
Next ==
  \/ \E r \in Slots : r = 1 /\ Request(r) /\ pre' = Snapshot
  \/ \E r \in Slots : Step(r)
  \/ (\A r \in Slots : Free(r)) /\ Tick

Spec == Init /\ [][Next]_vars

\* Requests interleave: a request arrives whenever a slot is free, every
\* handler in flight may take its next step, and the clock runs freely.
ConcUniverse == [phones |-> {PhoneA}, names |-> {"Asha"}, salts |-> {1}]

ConcInit ==
  /\ env = ConcUniverse
  /\ users = <<>>
  /\ otp_store = <<>>
  /\ now = 0
  /\ reqs = [r \in Slots |-> Idle]
  /\ registered = {}
  /\ uses = NoUses
  /\ pre = Snapshot

ConcNext ==
  \/ \E r \in Slots : (\A s \in Slots : s < r => InFlight(s)) /\ Request(r) /\ UNCHANGED pre
  \/ \E r \in Slots : Step(r)
  \/ Tick

ConcSpec == ConcInit /\ [][ConcNext]_vars

\* =====================================================================
\* Properties.  Under Spec one request is served at a time in slot 1: when
\* its frame is "done", pre is the state the request found and the current
\* state is the state it left.
\* =====================================================================
Cur == reqs[1]
Finished(op) == Cur.op = op /\ Cur.pc = "done"
\* the document a handler finds for a phone
UserFor(db, phone) == find_one(db, mask_phone(phone))
\* the code whose hash an entry holds: the code generate_otp drew for it
Plain(entry) == entry.otp.digest[2]
Live(store, phone, t) == phone \in DOMAIN store /\ t <= store[phone].expires_at
Expired(store, phone, t) == phone \in DOMAIN store /\ t > store[phone].expires_at
Passed(result) == result \in {Verified, SendFailed}

\* C1 (as stated): verify_otp succeeds iff the store holds an entry for the
\* phone, the code is the one generated last for it and now <= expires_at;
\* after a success the entry is gone and the user is verified.
C1_Original ==
  Finished("verify_otp") =>
    /\ (Cur.result = Verified) <=>
         /\ Live(pre.otp_store, Cur.phone, pre.now)
         /\ Cur.otp = Plain(pre.otp_store[Cur.phone])
    /\ Cur.result = Verified =>
         /\ Cur.phone \notin DOMAIN otp_store
         /\ UserFor(users, Cur.phone).isPhoneVerified

\* C1 (amended): verify_otp passes its ledger check iff the store holds an
\* entry for the phone, the code is the one generated last for it and
\* now <= expires_at (now = expires_at included).  It then removes the entry
\* and sets isPhoneVerified, and answers with the success message when the
\* welcome message is sent and with the 500 of the failed send otherwise.
C1_VerifySucceedsIff ==
  Finished("verify_otp") =>
    /\ Passed(Cur.result) <=>
         /\ Live(pre.otp_store, Cur.phone, pre.now)
         /\ Cur.otp = Plain(pre.otp_store[Cur.phone])
    /\ Passed(Cur.result) =>
         /\ Cur.phone \notin DOMAIN otp_store
         /\ UserFor(users, Cur.phone) # NoUser
         /\ UserFor(users, Cur.phone).isPhoneVerified

\* C1 witness: a verification that succeeded at the boundary now = expires_at
C1_Witness ==
  /\ Finished("verify_otp")
  /\ Cur.result = Verified
  /\ pre.now = pre.otp_store[Cur.phone].expires_at
  /\ ~UserFor(pre.users, Cur.phone).isPhoneVerified

\* C2 (as stated): register_user on a phone no earlier request registered
\* creates exactly one PendingVerification document and leaves one entry for
\* the phone in the store.
C2_RegisterCreatesOne ==
  (Finished("register_user") /\ Cur.phone \in ValidPhones
     /\ Cur.phone \notin pre.registered) =>
    /\ Len(users) = Len(pre.users) + 1
    /\ SubSeq(users, 1, Len(pre.users)) = pre.users
    /\ users[Len(users)].phone = mask_phone(Cur.phone)
    /\ ~users[Len(users)].isPhoneVerified
    /\ ~users[Len(users)].isUserDeleted
    /\ Cur.phone \in DOMAIN otp_store
    /\ otp_store[Cur.phone].expires_at = pre.now + OtpTtl

\* C3: register_user on a phone with a document that is not deleted answers
\* "already exists" and leaves the store and the collection as they were.
C3_RegisterExistingRejected ==
  (Finished("register_user") /\ UserFor(pre.users, Cur.phone) # NoUser
     /\ ~UserFor(pre.users, Cur.phone).isUserDeleted) =>
    /\ Cur.result = AlreadyExists
    /\ users = pre.users
    /\ otp_store = pre.otp_store

\* C3 witness: a rejected registration while the store holds entries
C3_Witness ==
  /\ Finished("register_user")
  /\ Cur.result = AlreadyExists
  /\ Cur.phone \in pre.registered
  /\ Cur.phone \in DOMAIN pre.otp_store
  /\ Cur.name # UserFor(pre.users, Cur.phone).name

\* C4: register_user on a phone whose document is soft-deleted adds no
\* document: the document keeps its id and its isPhoneVerified, becomes
\* not deleted, takes the new name, every other document is as it was, and
\* a fresh entry for the phone is stored.
C4_RegisterReactivates ==
  (Finished("register_user") /\ UserFor(pre.users, Cur.phone).isUserDeleted) =>
    LET old == UserFor(pre.users, Cur.phone)
    IN  /\ Len(users) = Len(pre.users)
        /\ \A i \in 1..Len(users) :
             IF pre.users[i].id = old.id
             THEN users[i] = [old EXCEPT !.isUserDeleted = FALSE, !.name = Cur.name]
             ELSE users[i] = pre.users[i]
        /\ Cur.result \in {Registered, SendFailed}
        /\ Cur.phone \in DOMAIN otp_store
        /\ otp_store[Cur.phone].expires_at = pre.now + OtpTtl
        /\ bcrypt_verify(Cur.otp, otp_store[Cur.phone].otp)

\* C4 witness: the reactivation of a verified document under another name
C4_Witness ==
  /\ Finished("register_user")
  /\ UserFor(pre.users, Cur.phone).isUserDeleted
  /\ UserFor(pre.users, Cur.phone).isPhoneVerified
  /\ UserFor(pre.users, Cur.phone).name # Cur.name
  /\ UserFor(users, Cur.phone).name = Cur.name
  /\ UserFor(users, Cur.phone).isPhoneVerified
  /\ Cur.phone \in DOMAIN pre.otp_store

\* C5 (as stated; under ConcSpec, where handlers interleave at their awaits):
\* no two documents that are not deleted carry the same phone number.
C5_UniquePhone ==
  \A i, j \in 1..Len(users) :
    (i # j /\ users[i].phone = users[j].phone) =>
      (users[i].isUserDeleted \/ users[j].isUserDeleted)

C7_Original ==
  Finished("verify_otp") =>
    /\ Expired(pre.otp_store, Cur.phone, pre.now) =>
         (Cur.result = OtpExpiredOrInvalid /\ Cur.phone \notin DOMAIN otp_store)
    /\ Cur.phone \notin DOMAIN pre.otp_store =>
         (Cur.result.status >= 400 /\ Cur.result # OtpExpiredOrInvalid)

\* C7 (amended): verify_otp more than 300 seconds after the entry was
\* generated fails with 400 "OTP expired or invalid", whatever the code, and
\* removes the entry; the next verify_otp, which finds no entry, fails with
\* that same 400 "OTP expired or invalid", even with the right code.
C7_ExpiredThenInvalid ==
  Finished("verify_otp") =>
    /\ Expired(pre.otp_store, Cur.phone, pre.now) =>
         /\ Cur.result = OtpExpiredOrInvalid
         /\ otp_store = pop(pre.otp_store, Cur.phone)
         /\ users = pre.users
    /\ Cur.phone \notin DOMAIN pre.otp_store =>
         /\ Cur.result = OtpExpiredOrInvalid
         /\ otp_store = pre.otp_store
         /\ users = pre.users

\* C7 witness: the right code, presented after the entry expired
C7_Witness ==
  /\ Finished("verify_otp")
  /\ Expired(pre.otp_store, Cur.phone, pre.now)
  /\ Cur.otp = Plain(pre.otp_store[Cur.phone])
  /\ Cur.phone \notin DOMAIN otp_store

\* C8 (as stated): resend_otp answers 404 without a user and "already
\* verified" for a verified user, the store unchanged; for an unverified user
\* it overwrites the entry of the phone, the code of the resend verifies and
\* the code issued before no longer verifies.
C8_Original ==
  Finished("resend_otp") =>
    LET user == UserFor(pre.users, Cur.phone)
    IN  /\ user = NoUser => (Cur.result = UserNotFound /\ otp_store = pre.otp_store)
        /\ (user # NoUser /\ user.isPhoneVerified) =>
             (Cur.result = AlreadyVerified /\ otp_store = pre.otp_store)
        /\ (user # NoUser /\ ~user.isPhoneVerified) =>
             /\ LedgerCheck(otp_store, Cur.phone, Cur.otp, pre.now) = Ok
             /\ Cur.phone \in DOMAIN pre.otp_store =>
                  LedgerCheck(otp_store, Cur.phone, Plain(pre.otp_store[Cur.phone]),
                              pre.now) # Ok

\* C8 (amended): as stated, except that after a resend for an unverified user
\* the code of the resend verifies and every other code fails: the code
\* issued before no longer verifies unless the resend drew that same code.
C8_ResendOverwrites ==
  Finished("resend_otp") =>
    LET user == UserFor(pre.users, Cur.phone)
    IN  /\ users = pre.users
        /\ user = NoUser => (Cur.result = UserNotFound /\ otp_store = pre.otp_store)
        /\ (user # NoUser /\ user.isPhoneVerified) =>
             (Cur.result = AlreadyVerified /\ otp_store = pre.otp_store)
        /\ (user # NoUser /\ ~user.isPhoneVerified) =>
             /\ Cur.result \in {Resent, SendFailed}
             /\ DOMAIN otp_store = DOMAIN pre.otp_store \cup {Cur.phone}
             /\ \A p \in DOMAIN otp_store \ {Cur.phone} : otp_store[p] = pre.otp_store[p]
             /\ otp_store[Cur.phone].expires_at = pre.now + OtpTtl
             /\ \A c \in Codes :
                  LedgerCheck(otp_store, Cur.phone, c, pre.now) = Ok <=> c = Cur.otp

\* C8 witness: a resend over an older entry that held another code
C8_Witness ==
  /\ Finished("resend_otp")
  /\ Cur.result = Resent
  /\ Cur.phone \in DOMAIN pre.otp_store
  /\ Plain(pre.otp_store[Cur.phone]) # Cur.otp
  /\ pre.otp_store[Cur.phone].expires_at < otp_store[Cur.phone].expires_at

\* C9 (as stated): get_all_users returns exactly the documents that are
\* verified and not deleted.
Range(seq) == {seq[i] : i \in 1..Len(seq)}
C9_GetAllExact ==
  Finished("get_all_users") =>
    Range(Cur.body) = {u \in Range(users) : u.isPhoneVerified /\ ~u.isUserDeleted}

\* C10 (as stated): per phone number the lifecycle takes only the steps
\* Unregistered -> PendingVerification (register), PendingVerification ->
\* Verified (verify), PendingVerification or Verified -> SoftDeleted (delete)
\* and SoftDeleted -> PendingVerification (register); verify_otp changes no
\* document that is soft-deleted.
Masks == {mask_phone(p) : p \in Phones}
Lifecycle(db, masked) ==
  LET u == find_one(db, masked)
  IN  IF u = NoUser THEN "Unregistered"
      ELSE IF u.isUserDeleted THEN "SoftDeleted"
      ELSE IF u.isPhoneVerified THEN "Verified"
      ELSE "PendingVerification"
Allowed(op) ==
  IF op = "register_user"
  THEN {<<"Unregistered", "PendingVerification">>, <<"SoftDeleted", "PendingVerification">>}
  ELSE IF op = "verify_otp" THEN {<<"PendingVerification", "Verified">>}
  ELSE IF op = "delete_user"
  THEN {<<"PendingVerification", "SoftDeleted">>, <<"Verified", "SoftDeleted">>}
  ELSE {}
C10_Lifecycle ==
  Cur.pc = "done" =>
    \A m \in Masks :
      /\ \/ Lifecycle(users, m) = Lifecycle(pre.users, m)
         \/ <<Lifecycle(pre.users, m), Lifecycle(users, m)>> \in Allowed(Cur.op)
      /\ (Cur.op = "verify_otp" /\ Lifecycle(pre.users, m) = "SoftDeleted") =>
           find_one(users, m) = find_one(pre.users, m)

\* C11: verify_otp that finds no entry for the phone, an entry past its
\* expiry, or an entry whose hash the code does not match answers with a 400
\* and changes no document: the collection is field for field the one the
\* request found, isPhoneVerified of every document included.
C11_LedgerFailureKeepsUsers ==
  (Finished("verify_otp")
     /\ \/ Cur.phone \notin DOMAIN pre.otp_store
        \/ pre.now > pre.otp_store[Cur.phone].expires_at
        \/ Cur.otp # Plain(pre.otp_store[Cur.phone])) =>
    /\ Cur.result \in {OtpExpiredOrInvalid, IncorrectOtp}
    /\ users = pre.users

\* C11 witness: the right code after the expiry, the document still unverified
C11_Witness ==
  /\ Finished("verify_otp")
  /\ Expired(pre.otp_store, Cur.phone, pre.now)
  /\ Cur.otp = Plain(pre.otp_store[Cur.phone])
  /\ UserFor(pre.users, Cur.phone) # NoUser
  /\ ~UserFor(pre.users, Cur.phone).isPhoneVerified
  /\ Cur.result = OtpExpiredOrInvalid
  /\ users = pre.users

\* C12: register_user whose send_whatsapp_message fails answers with the 500
\* of the failed send and undoes nothing: the document it inserted, or the
\* document it reactivated, is in the collection, and the entry generated
\* for the phone is in the store.
C12_SendFailureKeepsRegistration ==
  (Finished("register_user") /\ Cur.result = SendFailed) =>
    LET old == UserFor(pre.users, Cur.phone)
    IN  /\ old = NoUser =>
             /\ Len(users) = Len(pre.users) + 1
             /\ SubSeq(users, 1, Len(pre.users)) = pre.users
             /\ users[Len(users)].phone = mask_phone(Cur.phone)
             /\ users[Len(users)].name = Cur.name
        /\ old # NoUser =>
             /\ old.isUserDeleted
             /\ Len(users) = Len(pre.users)
             /\ \A i \in 1..Len(users) :
                  IF pre.users[i].id = old.id
                  THEN users[i] = [old EXCEPT !.isUserDeleted = FALSE, !.name = Cur.name]
                  ELSE users[i] = pre.users[i]
        /\ Cur.phone \in DOMAIN otp_store
        /\ otp_store[Cur.phone].expires_at = pre.now + OtpTtl
        /\ bcrypt_verify(Cur.otp, otp_store[Cur.phone].otp)

\* C12 witness: a first registration whose send failed; the document and the
\* entry are there
C12_Witness ==
  /\ Finished("register_user")
  /\ Cur.result = SendFailed
  /\ UserFor(pre.users, Cur.phone) = NoUser
  /\ Cur.phone \notin DOMAIN pre.otp_store
  /\ UserFor(users, Cur.phone).name = Cur.name
  /\ Cur.phone \in DOMAIN otp_store

\* C13 (as stated): a DELETE /{phone} request answers 404 and changes nothing
\* when no document exists for the phone; otherwise it sets isUserDeleted on
\* that document and leaves its other fields, every other document and the
\* whole store (a live entry for the phone included) as they were.
C13_SoftDelete ==
  (Cur.op \in {"delete_user_first", "delete_user"} /\ Cur.pc = "done") =>
    LET old == UserFor(pre.users, Cur.phone)
    IN  /\ otp_store = pre.otp_store
        /\ old = NoUser => (Cur.result = UserNotFound /\ users = pre.users)
        /\ old # NoUser =>
             /\ Len(users) = Len(pre.users)
             /\ \A i \in 1..Len(users) :
                  IF pre.users[i].id = old.id
                  THEN users[i] = [old EXCEPT !.isUserDeleted = TRUE]
                  ELSE users[i] = pre.users[i]

\* C13, for the second function named delete_user alone (the one no route
\* reaches): it keeps the contract.
C13_SecondFunctionAlone ==
  Finished("delete_user") =>
    LET old == UserFor(pre.users, Cur.phone)
    IN  /\ otp_store = pre.otp_store
        /\ old = NoUser => (Cur.result = UserNotFound /\ users = pre.users)
        /\ old # NoUser =>
             /\ Cur.result = Deleted
             /\ Len(users) = Len(pre.users)
             /\ \A i \in 1..Len(users) :
                  IF pre.users[i].id = old.id
                  THEN users[i] = [old EXCEPT !.isUserDeleted = TRUE]
                  ELSE users[i] = pre.users[i]

\* C14: no step of any handler removes a document or changes its id: every
\* document stays in the collection under the id it was inserted with, no
\* two documents share an id, and get_user_by_id returns the document of an
\* id in the collection whether or not the document is soft-deleted.
C14_Kept ==
  /\ Len(users') >= Len(users)
  /\ \A i \in 1..Len(users) : users'[i].id = users[i].id
C14_Fetchable ==
  /\ \A i, j \in 1..Len(users) : users[i].id = users[j].id => i = j
  /\ Finished("get_user_by_id") =>
       \A i \in 1..Len(pre.users) :
         pre.users[i].id = Cur.uid => (Cur.result = Ok /\ Cur.body = <<pre.users[i]>>)
C14_RecordsNeverRemoved == [][C14_Kept]_vars /\ []C14_Fetchable

\* C14 witness: get_user_by_id returned a soft-deleted document, after an
\* update and a deletion were saved
C14_Witness ==
  /\ Finished("get_user_by_id")
  /\ Cur.result = Ok
  /\ Len(Cur.body) = 1
  /\ Cur.body[1].isUserDeleted
  /\ Cur.body[1].isPhoneVerified
  /\ Len(users) = MaxUsers

\* C15 (as stated; under ConcSpec, where handlers interleave at their
\* awaits): an entry of the store is used once: no verify_otp completes
\* with its success message on an entry that another verify_otp, which
\* checked that same entry, has already completed on.
C15_SingleUse ==
  \A r \in Slots :
    (reqs[r].op = "verify_otp" /\ reqs[r].pc = "done" /\ reqs[r].result = Verified) =>
      r \notin uses.spent

\* C16: verify_otp that passed its ledger check and whose welcome send
\* failed answers with the 500 of the failed send and undoes nothing: the
\* document of the phone has isPhoneVerified set, every other field and
\* every other document are as they were, and the entry of the phone is
\* removed from the store.
C16_WelcomeFailureKeepsVerification ==
  (Finished("verify_otp") /\ Cur.result = SendFailed) =>
    LET old == UserFor(pre.users, Cur.phone)
    IN  /\ Live(pre.otp_store, Cur.phone, pre.now)
        /\ Cur.otp = Plain(pre.otp_store[Cur.phone])
        /\ old # NoUser
        /\ Len(users) = Len(pre.users)
        /\ \A i \in 1..Len(users) :
             IF pre.users[i].id = old.id
             THEN users[i] = [old EXCEPT !.isPhoneVerified = TRUE]
             ELSE users[i] = pre.users[i]
        /\ Cur.phone \notin DOMAIN otp_store
        /\ \A p \in DOMAIN otp_store : otp_store[p] = pre.otp_store[p]
        /\ DOMAIN otp_store = DOMAIN pre.otp_store \ {Cur.phone}

\* C16 witness: the welcome send failed for a document that was unverified
C16_Witness ==
  /\ Finished("verify_otp")
  /\ Cur.result = SendFailed
  /\ ~UserFor(pre.users, Cur.phone).isPhoneVerified
  /\ UserFor(users, Cur.phone).isPhoneVerified
  /\ Cur.phone \in DOMAIN pre.otp_store
  /\ Cur.phone \notin DOMAIN otp_store

\* C17 (as stated; under ConcSpec): verify_otp removes only the entry whose
\* hash it checked: when register_user or resend_otp stored a new entry for
\* the phone after the check, the step of verify_otp that pops the phone
\* leaves the store as it is.
C17_PopStep ==
  \A r \in Slots :
    (At(r, "verify_otp", "welcome") /\ reqs'[r].pc = "done" /\ r \notin uses.current) =>
      otp_store' = otp_store
C17_RemovesOnlyChecked == [][C17_PopStep]_vars

\* C18 (as stated): a request addressed to a phone number finds and changes
\* only the document registered with exactly that number.  For a number no
\* register_user has written a document for: the request is not answered
\* "already exists", it changes no document that is in the collection, and
\* resend_otp, update_user and delete_user answer 404.
C18_ExactPhone ==
  (Cur.pc = "done" /\ Cur.phone \notin pre.registered
     /\ Cur.op \in {"register_user", "verify_otp", "resend_otp", "update_user",
                    "delete_user"}) =>
    /\ Cur.result # AlreadyExists
    /\ \A i \in 1..Len(pre.users) : users[i] = pre.users[i]
    /\ Cur.op \in {"resend_otp", "update_user", "delete_user"} =>
         Cur.result = UserNotFound

\* C19: every phone that has an entry in the store has a document in the
\* collection, and no verify_otp ends with the 404 "User not found".
C19_EntryHasUser ==
  /\ \A p \in DOMAIN otp_store : UserFor(users, p) # NoUser
  /\ \A r \in Slots : reqs[r].op = "verify_otp" => reqs[r].result # UserNotFound

\* C19 witness: a verify_otp that passed its check has read the document of
\* the phone while the store holds the entry
C19_Witness ==
  /\ Cur.op = "verify_otp"
  /\ Cur.pc = "save"
  /\ Cur.user # NoUser
  /\ Cur.user.isUserDeleted
  /\ Cur.phone \in DOMAIN otp_store

\* C20 (as stated; under ConcSpec, where handlers interleave at their
\* awaits): isPhoneVerified never goes back to false: no step of any request
\* clears it on a document that has it set.
C20_Kept ==
  \A i \in 1..Len(users) : users[i].isPhoneVerified => users'[i].isPhoneVerified
C20_VerifiedMonotonic == [][C20_Kept]_vars

\* C20, for requests served one at a time: no step clears isPhoneVerified;
\* register_user on a soft-deleted verified document leaves it not deleted
\* and verified, with no check of a code; and resend_otp for a verified
\* document answers "already verified" and stores no entry.
C20_Reactivated ==
  /\ (Finished("register_user") /\ UserFor(pre.users, Cur.phone).isUserDeleted
        /\ UserFor(pre.users, Cur.phone).isPhoneVerified) =>
       /\ UserFor(users, Cur.phone).id = UserFor(pre.users, Cur.phone).id
       /\ ~UserFor(users, Cur.phone).isUserDeleted
       /\ UserFor(users, Cur.phone).isPhoneVerified
  /\ (Finished("resend_otp") /\ UserFor(pre.users, Cur.phone).isPhoneVerified) =>
       /\ Cur.result = AlreadyVerified
       /\ otp_store = pre.otp_store
C20_OneAtATime == [][C20_Kept]_vars /\ []C20_Reactivated

====
